---------------------------- MODULE Spec2Model ----------------------------
(***************************************************************************)
(* A model of the path tracer of RayTracingInCpp: the intersection search  *)
(* (sphere.h, hittable_list.h), the materials (material.h) and the render  *)
(* loop with its recursive integrator (camera.h).                          *)
(*                                                                         *)
(* Numbers.  A C++ double is modelled as an extended rational <<n, d>>     *)
(* in lowest terms with d >= 0: d > 0 is the rational n/d, <<1,0>> is      *)
(* +infinity, <<-1,0>> is -infinity and <<0,0>> is NaN.  Arithmetic is     *)
(* exact (no rounding, no signed zero), with the IEEE rules for the        *)
(* special values (inf - inf, 0 * inf and 0/0 are NaN; every comparison    *)
(* with NaN is false).  std::sqrt is exact on squares of rationals and is  *)
(* rounded down to a multiple of 1/SqrtGrid otherwise.                     *)
(***************************************************************************)
EXTENDS Integers, Sequences, FiniteSets, TLC

(***************************************************************************)
(* Bounds of the model.                                                    *)
(***************************************************************************)
\* std::sqrt of a non-square is rounded down to a multiple of 1/SqrtGrid
SqrtGrid == 16
\* the longest hittable_list that is drawn
MaxObjects == 2

(***************************************************************************)
(* The state of the program.                                               *)
(***************************************************************************)
\* a call of hittable_list::hit (hittable_list.h)
VARIABLES
    hl_objects,         \* hittable_list::objects
    hl_r,               \* the argument r
    hl_ray_t,           \* the argument ray_t
    hl_rec,             \* the argument rec, the caller's record
    hl_temp_rec,        \* the local temp_rec
    hl_hit_anything,    \* the local hit_anything
    hl_closest_so_far,  \* the local closest_so_far
    hl_index,           \* the position of the range-for in objects, from 1
    hl_ret,             \* what the last object->hit returned
    hl_pc               \* "call", "loop" or "done"

hlVars ==
    <<hl_objects, hl_r, hl_ray_t, hl_rec, hl_temp_rec, hl_hit_anything,
      hl_closest_so_far, hl_index, hl_ret, hl_pc>>

\* the random source (rtweekend.h)
VARIABLES
    rng_stream,     \* the values random_double() returns, in order, repeated
    rng_pos,        \* how many values were drawn, modulo Len(rng_stream)
    arg_order       \* the order in which the build evaluates call arguments

rngVars == <<rng_stream, rng_pos, arg_order>>

\* a Camera and its calls of render (camera.h)
VARIABLES
    cam_config,       \* the public members of Camera
    cam,              \* the private members initialize() computes
    rd_world,         \* the argument world of render
    rd_pc,            \* "idle", "scan", "sample"
    rd_j,             \* the loop variables of render
    rd_i,
    rd_sample,
    rd_pixel_color,   \* the local pixel_color
    rd_pixel_pos,     \* the position of the random source when the pixel began
    rd_out,           \* what this render wrote: [i, j, pos, color, bytes] per pixel
    rd_call,          \* the last top-level call of ray_color
    rd_ray,           \* the ray the last call of get_ray returned
    rd_ray_pos,       \* the position of the random source after that call
    rd_renders,       \* the calls of render so far
    rd_init_calls,    \* the calls of initialize so far
    rd_start_pos,     \* the position of the random source when this render began
    rd_history        \* [start, out] of every finished render

cameraVars ==
    <<cam_config, cam, rd_world, rd_pc, rd_j, rd_i, rd_sample, rd_pixel_color,
      rd_pixel_pos, rd_out, rd_call, rd_ray, rd_ray_pos, rd_renders, rd_init_calls, rd_start_pos,
      rd_history>>

\* a call of material::scatter (material.h)
VARIABLES
    mt_mat,         \* the material object: its kind and its members
    mt_r_in,        \* the argument r_in
    mt_rec,         \* the argument rec
    mt_pc,          \* "call", "sampling", "sampled" or "done"
    mt_rejected,    \* random_unit_vector has rejected a candidate in this call
    mt_sample,      \* what random_unit_vector returned
    mt_result,      \* [ret, attenuation, scattered] when the call has returned
    mt_branch       \* the branch the last call of dialectric::scatter took

matVars ==
    <<mt_mat, mt_r_in, mt_rec, mt_pc, mt_rejected, mt_sample, mt_result, mt_branch>>

\* a call of a member function of an interval (interval.h)
VARIABLES
    iv_self,        \* the interval object
    iv_x,           \* the argument x
    iv_op,          \* the member function called last, "none" before a call
    iv_ret          \* what it returned

intervalVars == <<iv_self, iv_x, iv_op, iv_ret>>

\* a call of vec3::operator*=(double t) (vec3.h)
VARIABLES
    ma_self,        \* e[0], e[1], e[2] of the vector the operator is called on
    ma_t,           \* the argument t of the innermost activation
    ma_frames,      \* the activations of the operator on the stack
    ma_build,       \* how the build runs the call in the return statement:
                    \* "frames" (a new stack frame) or "tailcall" (a jump)
    ma_pc           \* "call", "active", "overflow" (the stack is exhausted) or
                    \* "returned"

mulAssignVars == <<ma_self, ma_t, ma_frames, ma_build, ma_pc>>

vars == <<hlVars, rngVars, cameraVars, matVars, intervalVars, mulAssignVars>>

(***************************************************************************)
(* Extended rationals.                                                     *)
(***************************************************************************)
Abs(n) == IF n < 0 THEN -n ELSE n

Sgn(n) == IF n < 0 THEN -1 ELSE IF n > 0 THEN 1 ELSE 0

RECURSIVE GCD(_, _)
GCD(a, b) == IF b = 0 THEN a ELSE GCD(b, a % b)

\* the extended rational n/d in lowest terms
Q(n, d) ==
    IF d = 0 THEN <<Sgn(n), 0>>
    ELSE LET g == GCD(Abs(n), Abs(d))
         IN  <<Sgn(d) * (n \div g), Abs(d) \div g>>

\* an integer as a double
I(n) == <<n, 1>>

infinity == <<1, 0>>

NaN == <<0, 0>>

IsNaN(x) == x = NaN

IsInf(x) == x[2] = 0 /\ x[1] # 0

IsFinite(x) == x[2] # 0

RNeg(x) == <<-x[1], x[2]>>

RAdd(x, y) ==
    IF IsNaN(x) \/ IsNaN(y) THEN NaN
    ELSE IF IsInf(x) THEN (IF IsInf(y) /\ y # x THEN NaN ELSE x)
    ELSE IF IsInf(y) THEN y
    ELSE LET g == GCD(x[2], y[2])
         IN  Q(x[1] * (y[2] \div g) + y[1] * (x[2] \div g), (x[2] \div g) * y[2])

RSub(x, y) == RAdd(x, RNeg(y))

RMul(x, y) ==
    IF x[2] = 0 \/ y[2] = 0 THEN <<Sgn(x[1]) * Sgn(y[1]), 0>>
    ELSE IF x[1] = 0 \/ y[1] = 0 THEN <<0, 1>>
    ELSE LET g1 == GCD(Abs(x[1]), y[2])
             g2 == GCD(Abs(y[1]), x[2])
         IN  Q((x[1] \div g1) * (y[1] \div g2), (x[2] \div g2) * (y[2] \div g1))

\* 1 / x
RInv(x) ==
    IF IsNaN(x) THEN NaN
    ELSE IF IsInf(x) THEN <<0, 1>>
    ELSE IF x[1] = 0 THEN infinity
    ELSE <<Sgn(x[1]) * x[2], Abs(x[1])>>

RDiv(x, y) == RMul(x, RInv(y))

\* p/q < r/s for rationals with q, s > 0, by continued fractions (no products)
RECURSIVE FracLt(_, _, _, _)
FracLt(p, q, r, s) ==
    LET fp == p \div q
        fr == r \div s
        rp == p % q
        rr == r % s
    IN  IF fp # fr THEN fp < fr
        ELSE IF rr = 0 THEN FALSE
        ELSE IF rp = 0 THEN TRUE
        ELSE FracLt(s, rr, q, rp)

\* x < y on doubles
RLt(x, y) ==
    IF IsNaN(x) \/ IsNaN(y) THEN FALSE
    ELSE IF x = y THEN FALSE
    ELSE IF IsInf(x) THEN x[1] < 0
    ELSE IF IsInf(y) THEN y[1] > 0
    ELSE FracLt(x[1], x[2], y[1], y[2])

\* x == y on doubles
REq(x, y) == ~IsNaN(x) /\ x = y

\* x <= y on doubles
RLe(x, y) == RLt(x, y) \/ REq(x, y)

\* x > y on doubles
RGt(x, y) == RLt(y, x)

\* the largest k in lo..hi with k * k <= n (lo * lo <= n)
RECURSIVE ISqrtIn(_, _, _)
ISqrtIn(n, lo, hi) ==
    IF lo >= hi THEN lo
    ELSE LET mid == (lo + hi + 1) \div 2
         IN  IF mid * mid <= n THEN ISqrtIn(n, mid, hi) ELSE ISqrtIn(n, lo, mid - 1)

\* the integer square root of n >= 0
ISqrt(n) == ISqrtIn(n, 0, IF n < 46340 THEN n ELSE 46340)

IsSquare(n) == ISqrt(n) * ISqrt(n) = n

\* the largest k in lo..hi with (k / SqrtGrid)^2 <= n/d, by comparisons only
RECURSIVE SqrtFloorIn(_, _, _, _)
SqrtFloorIn(n, d, lo, hi) ==
    IF lo >= hi THEN lo
    ELSE LET mid == (lo + hi + 1) \div 2
         IN  IF FracLt(n, d, mid * mid, SqrtGrid * SqrtGrid)
             THEN SqrtFloorIn(n, d, lo, mid - 1)
             ELSE SqrtFloorIn(n, d, mid, hi)

\* std::sqrt
RSqrt(x) ==
    IF IsNaN(x) \/ x[1] < 0 THEN NaN
    ELSE IF IsInf(x) THEN infinity
    ELSE IF IsSquare(x[1]) /\ IsSquare(x[2]) THEN <<ISqrt(x[1]), ISqrt(x[2])>>
    ELSE LET bound == ((x[1] \div x[2]) + 1) * SqrtGrid
         IN  Q(SqrtFloorIn(x[1], x[2], 0, IF bound < 46340 THEN bound ELSE 46340),
               SqrtGrid)

\* std::fabs
RAbs(x) == <<Abs(x[1]), x[2]>>

\* std::fmax and std::fmin: a NaN argument is ignored
RFmax(x, y) == IF IsNaN(x) THEN y ELSE IF IsNaN(y) THEN x ELSE IF RLt(x, y) THEN y ELSE x

RFmin(x, y) == IF IsNaN(x) THEN y ELSE IF IsNaN(y) THEN x ELSE IF RLt(y, x) THEN y ELSE x

(***************************************************************************)
(* vec3.h: a vec3 is a triple of doubles.                                  *)
(***************************************************************************)
vec3(e0, e1, e2) == <<e0, e1, e2>>

\* a vec3 of integers
IV(a, b, c) == <<I(a), I(b), I(c)>>

vec3_neg(v) == <<RNeg(v[1]), RNeg(v[2]), RNeg(v[3])>>

vec3_add(u, v) == <<RAdd(u[1], v[1]), RAdd(u[2], v[2]), RAdd(u[3], v[3])>>

vec3_sub(u, v) == <<RSub(u[1], v[1]), RSub(u[2], v[2]), RSub(u[3], v[3])>>

\* operator*(const vec3 &, const vec3 &)
vec3_mul(u, v) == <<RMul(u[1], v[1]), RMul(u[2], v[2]), RMul(u[3], v[3])>>

\* operator*(double, const vec3 &)
vec3_scale(t, v) == <<RMul(t, v[1]), RMul(t, v[2]), RMul(t, v[3])>>

\* operator/(const vec3 &, double)
vec3_div(v, t) == vec3_scale(RInv(t), v)

dot(u, v) == RAdd(RAdd(RMul(u[1], v[1]), RMul(u[2], v[2])), RMul(u[3], v[3]))

cross(u, v) ==
    <<RSub(RMul(u[2], v[3]), RMul(u[3], v[2])),
      RSub(RMul(u[3], v[1]), RMul(u[1], v[3])),
      RSub(RMul(u[1], v[2]), RMul(u[2], v[1]))>>

length_squared(v) == dot(v, v)

length(v) == RSqrt(length_squared(v))

unit_vector(v) == vec3_div(v, length(v))

\* reflect with the sign of the correction reversed
reflect_plus(v, n) == vec3_add(v, vec3_scale(RMul(I(2), dot(v, n)), n))

reflect(v, n) == vec3_sub(v, vec3_scale(RMul(I(2), dot(v, n)), n))

\* v == w component by component
vec3_eq(v, w) == REq(v[1], w[1]) /\ REq(v[2], w[2]) /\ REq(v[3], w[3])

(***************************************************************************)
(* ray.h and interval.h.                                                   *)
(***************************************************************************)
ray(origin, direction) == [orig |-> origin, dir |-> direction]

\* ray::at
ray_at(r, t) == vec3_add(r.orig, vec3_scale(t, r.dir))

interval(lo, hi) == [min |-> lo, max |-> hi]

\* interval::surrounds with the upper bound included
surrounds_upto(iv, x) == RLt(iv.min, x) /\ RLe(x, iv.max)

\* interval::surrounds
surrounds(iv, x) == RLt(iv.min, x) /\ RLt(x, iv.max)

\* interval::interval(), the default constructor with the bounds exchanged
interval_default_swapped == [min |-> RNeg(infinity), max |-> infinity]

\* interval::interval(), the default constructor
interval_default == [min |-> infinity, max |-> RNeg(infinity)]

\* interval::empty
interval_empty == interval(infinity, RNeg(infinity))

\* interval::universe
interval_universe == interval(RNeg(infinity), infinity)

\* interval::contains, as written: min <= x <= max is (min <= x) <= max, the
\* bool min <= x converted to 1.0 or 0.0 for the second comparison
contains(iv, x) == RLe(IF RLe(iv.min, x) THEN I(1) ELSE I(0), iv.max)

(***************************************************************************)
(* hittable.h: the hit record.                                             *)
(***************************************************************************)
\* a default-constructed hit_record: p and normal are zero vectors, mat is a
\* null pointer (0); t and front_face are not initialised and are never read
\* before sphere::hit has written them
NewRecord ==
    [p |-> IV(0, 0, 0), normal |-> IV(0, 0, 0), mat |-> 0, t |-> NaN,
     front_face |-> FALSE]

\* set_face_normal without the flip of a back-face normal
set_face_normal_noflip(rec, r, outward_normal) ==
    [rec EXCEPT !.front_face = RLt(dot(r.dir, outward_normal), I(0)),
                !.normal = outward_normal]

\* hit_record::set_face_normal
set_face_normal(rec, r, outward_normal) ==
    LET front_face == RLt(dot(r.dir, outward_normal), I(0))
    IN  [rec EXCEPT !.front_face = front_face,
                    !.normal = IF front_face THEN outward_normal
                               ELSE vec3_neg(outward_normal)]

(***************************************************************************)
(* sphere.h.                                                               *)
(***************************************************************************)
\* sphere::sphere
sphere(center, radius, mat) ==
    [center |-> center, radius |-> RFmax(I(0), radius), mat |-> mat]

\* h * h - a * c of sphere::hit
discriminant(s, r) ==
    LET oc == vec3_sub(s.center, r.orig)
        a == length_squared(r.dir)
        h == dot(r.dir, oc)
        c == RSub(length_squared(oc), RMul(s.radius, s.radius))
    IN  RSub(RMul(h, h), RMul(a, c))

\* sphere::hit trying the larger root first
sphere_root_larger_first(s, r, sign) ==
    LET oc == vec3_sub(s.center, r.orig)
        a == length_squared(r.dir)
        h == dot(r.dir, oc)
        sqrtd == RSqrt(discriminant(s, r))
    IN  RDiv(RSub(h, RMul(I(sign), sqrtd)), a)

\* the root sphere::hit tries first (sign = -1) and second (sign = 1)
sphere_root(s, r, sign) ==
    LET oc == vec3_sub(s.center, r.orig)
        a == length_squared(r.dir)
        h == dot(r.dir, oc)
        sqrtd == RSqrt(discriminant(s, r))
    IN  RDiv(RAdd(h, RMul(I(sign), sqrtd)), a)

\* sphere::hit with an outward normal that is not divided by the radius
sphere_fill_unscaled(s, r, root, rec) ==
    LET p == ray_at(r, root)
        outward_normal == vec3_sub(p, s.center)
    IN  [set_face_normal([rec EXCEPT !.t = root, !.p = p], r, outward_normal)
            EXCEPT !.mat = s.mat]

\* the record sphere::hit fills for the accepted root
sphere_fill(s, r, root, rec) ==
    LET p == ray_at(r, root)
        outward_normal == vec3_div(vec3_sub(p, s.center), s.radius)
    IN  [set_face_normal([rec EXCEPT !.t = root, !.p = p], r, outward_normal)
            EXCEPT !.mat = s.mat]

\* sphere::hit storing the root in rec.t before the interval test
sphere_hit_writing_early(s, r, ray_t, rec) ==
    IF RLt(discriminant(s, r), I(0)) THEN [ret |-> FALSE, rec |-> rec]
    ELSE LET root1 == sphere_root(s, r, -1)
             root2 == sphere_root(s, r, 1)
         IN  IF surrounds(ray_t, root1)
             THEN [ret |-> TRUE, rec |-> sphere_fill(s, r, root1, rec)]
             ELSE IF surrounds(ray_t, root2)
             THEN [ret |-> TRUE, rec |-> sphere_fill(s, r, root2, rec)]
             ELSE [ret |-> FALSE, rec |-> [rec EXCEPT !.t = root2]]

\* sphere::hit: [ret |-> the value returned, rec |-> the record afterwards]
sphere_hit(s, r, ray_t, rec) ==
    IF RLt(discriminant(s, r), I(0)) THEN [ret |-> FALSE, rec |-> rec]
    ELSE LET root1 == sphere_root(s, r, -1)
             root2 == sphere_root(s, r, 1)
         IN  IF surrounds(ray_t, root1)
             THEN [ret |-> TRUE, rec |-> sphere_fill(s, r, root1, rec)]
             ELSE IF surrounds(ray_t, root2)
             THEN [ret |-> TRUE, rec |-> sphere_fill(s, r, root2, rec)]
             ELSE [ret |-> FALSE, rec |-> rec]

\* the spheres that are drawn, <<center, radius argument>>: in front of the
\* origin, around the origin, farther away, of radius zero, beside the z axis
\* (tangent to it), and with a negative radius argument
Spheres ==
    {<<IV(0, 0, -1), 1>>, <<IV(0, 0, -1), 2>>, <<IV(0, 0, -3), 1>>,
     <<IV(0, 0, -3), 0>>, <<IV(0, 1, -2), 1>>, <<IV(0, 1, -2), -1>>}

\* the material reference of the k-th object of a list: materials are
\* numbered from 1, and 0 is the null pointer
MatOf(k) == k

\* the lists of at most MaxObjects spheres, each with a material of its own
Scenes == UNION {[1 .. n -> Spheres] : n \in 0 .. MaxObjects}

\* hittable_list::add, for every entry of a scene
BuildScene(sc) ==
    [k \in 1 .. Len(sc) |-> sphere(sc[k][1], I(sc[k][2]), MatOf(k))]

\* rays: along -z from the origin, along -z with a direction of length 2 from
\* (0,0,1), oblique, and the degenerate ray of direction zero
Rays ==
    {ray(IV(0, 0, 0), IV(0, 0, -1)), ray(IV(0, 0, 1), IV(0, 0, -2)),
     ray(IV(0, 0, 0), IV(0, 1, -2)), ray(IV(0, 0, 0), IV(0, 0, 0))}

\* query intervals: the one of Camera::ray_color, and a bounded one
Intervals == {interval(Q(1, 1000), infinity), interval(I(1), I(3))}

\* the record the caller of hittable_list::hit passes in
CallerRecord ==
    [p |-> IV(9, 9, 9), normal |-> IV(0, 1, 0), mat |-> -1, t |-> I(-1),
     front_face |-> TRUE]

(***************************************************************************)
(* hittable_list.h: hittable_list::hit, one action per loop iteration.     *)
(***************************************************************************)
\* hittable_list::hit without the shrinking upper bound
query_interval_noshrink(ray_t, closest_so_far) == interval(ray_t.min, ray_t.max)

\* the interval hittable_list::hit hands to each object
query_interval(ray_t, closest_so_far) == interval(ray_t.min, closest_so_far)

HitInit ==
    /\ hl_objects \in {BuildScene(sc) : sc \in Scenes}
    /\ hl_r \in Rays
    /\ hl_ray_t \in Intervals
    /\ hl_rec = CallerRecord
    /\ hl_temp_rec = NewRecord
    /\ hl_hit_anything = FALSE
    /\ hl_closest_so_far = NaN
    /\ hl_index = 0
    /\ hl_ret = FALSE
    /\ hl_pc = "call"

\* the locals of hittable_list::hit
HitEnter ==
    /\ hl_pc = "call"
    /\ hl_temp_rec' = NewRecord
    /\ hl_hit_anything' = FALSE
    /\ hl_closest_so_far' = hl_ray_t.max
    /\ hl_index' = 1
    /\ hl_pc' = "loop"
    /\ UNCHANGED <<hl_objects, hl_r, hl_ray_t, hl_rec, hl_ret>>
    /\ UNCHANGED <<rngVars, cameraVars, matVars, intervalVars, mulAssignVars>>

\* one iteration of the loop: object->hit and the body of the if
HitObject ==
    /\ hl_pc = "loop"
    /\ hl_index <= Len(hl_objects)
    /\ LET res == sphere_hit(hl_objects[hl_index], hl_r,
                             query_interval(hl_ray_t, hl_closest_so_far), hl_temp_rec)
       IN  /\ hl_ret' = res.ret
           /\ hl_temp_rec' = res.rec
           /\ hl_hit_anything' = (hl_hit_anything \/ res.ret)
           /\ hl_closest_so_far' = IF res.ret THEN res.rec.t ELSE hl_closest_so_far
           /\ hl_rec' = IF res.ret THEN res.rec ELSE hl_rec
    /\ hl_index' = hl_index + 1
    /\ UNCHANGED <<hl_objects, hl_r, hl_ray_t, hl_pc>>
    /\ UNCHANGED <<rngVars, cameraVars, matVars, intervalVars, mulAssignVars>>

\* return hit_anything
HitReturn ==
    /\ hl_pc = "loop"
    /\ hl_index > Len(hl_objects)
    /\ hl_pc' = "done"
    /\ UNCHANGED <<hl_objects, hl_r, hl_ray_t, hl_rec, hl_temp_rec, hl_hit_anything,
                   hl_closest_so_far, hl_index, hl_ret>>
    /\ UNCHANGED <<rngVars, cameraVars, matVars, intervalVars, mulAssignVars>>

HitNext == HitEnter \/ HitObject \/ HitReturn

\* the loop of hittable_list::hit from object k on, as a function of its
\* locals: [ret |-> hit_anything, rec |-> the caller's record at the end]
RECURSIVE hit_loop(_, _, _, _, _, _, _, _)
hit_loop(objects, r, ray_t, k, temp_rec, hit_anything, closest_so_far, rec) ==
    IF k > Len(objects) THEN [ret |-> hit_anything, rec |-> rec]
    ELSE LET res == sphere_hit(objects[k], r, query_interval(ray_t, closest_so_far),
                               temp_rec)
         IN  IF res.ret
             THEN hit_loop(objects, r, ray_t, k + 1, res.rec, TRUE, res.rec.t, res.rec)
             ELSE hit_loop(objects, r, ray_t, k + 1, res.rec, hit_anything,
                           closest_so_far, rec)

\* hittable_list::hit as a function of the list, the ray and the interval
hittable_list_hit(objects, r, ray_t, rec) ==
    hit_loop(objects, r, ray_t, 1, NewRecord, FALSE, ray_t.max, rec)

(***************************************************************************)
(* rtweekend.h: the random source.  random_double() returns the values of  *)
(* a stream that is fixed for a run (a seeded generator, or a              *)
(* deterministic source substituted for a test); the stream is periodic,   *)
(* and a position in it is a number in 0 .. Len(stream) - 1.               *)
(***************************************************************************)
\* unspecified in C++: the arguments of a call are evaluated left to right or
\* right to left, as the build chose
ArgOrders == {"ltr", "rtl"}

\* the random sources of a render, <<stream, order of evaluation>>: a constant
\* one (the order makes no difference to it) and one of period 4
RandomSources ==
    {<<(<<I(0)>>), "ltr">>}
        \cup {<<(<<I(0), Q(1, 2), Q(3, 4), Q(1, 4)>>), o>> : o \in ArgOrders}

\* the value the n-th next call of random_double() returns, n from 0
random_double(pos, n) == rng_stream[((pos + n) % Len(rng_stream)) + 1]

\* the position after n more calls
advance(pos, n) == (pos + n) % Len(rng_stream)

(***************************************************************************)
(* color.h: write_color.                                                   *)
(***************************************************************************)
Black == IV(0, 0, 0)

\* int(x) for a finite x: truncation toward zero
RTrunc(x) == Sgn(x[1]) * (Abs(x[1]) \div x[2])

linear_to_gamma(linear_component) ==
    IF RGt(linear_component, I(0)) THEN RSqrt(linear_component) ELSE I(0)

\* interval::clamp
clamp(iv, x) == IF RLt(x, iv.min) THEN iv.min ELSE IF RGt(x, iv.max) THEN iv.max ELSE x

\* the three bytes write_color prints
write_color(pixel_color) ==
    LET intensity == interval(I(0), Q(999, 1000))
        byte(c) == RTrunc(RMul(I(256), clamp(intensity, linear_to_gamma(c))))
    IN  <<byte(pixel_color[1]), byte(pixel_color[2]), byte(pixel_color[3])>>

(***************************************************************************)
(* The scene Camera::render is given.  Camera is written against the       *)
(* abstract hittable and material; the scenes drawn are small              *)
(* implementations of the two interfaces.                                  *)
(*   hits:  "never"     no ray hits (a hittable_list without objects)      *)
(*          "always"    every ray hits                                     *)
(*          "downward"  a ray hits iff its direction points below the      *)
(*                      horizon (y < 0)                                    *)
(*   mat:   "absorb"    the base class material: scatter returns false     *)
(*          "glass"     always scatters, attenuation (1,1,1), the          *)
(*                      scattered ray keeps the direction                  *)
(*          "half"      always scatters straight up, attenuation 1/2       *)
(*          "coin"      draws one random_double: below 1/2 it scatters as  *)
(*                      "half" does, otherwise it absorbs                  *)
(*          "pit"       attenuation 1/2; scatters straight down, and       *)
(*                      straight up a ray that came straight down          *)
(*          "bright"    scatters as "half" does, with the attenuation      *)
(*                      (2,2,2): the albedo of lambertian(color(2,2,2))    *)
(***************************************************************************)
Worlds ==
    {[hits |-> "never", mat |-> "absorb"], [hits |-> "always", mat |-> "absorb"],
     [hits |-> "always", mat |-> "glass"], [hits |-> "downward", mat |-> "half"],
     [hits |-> "always", mat |-> "coin"]}

\* hittable::hit of the scene: [ret, rec]
world_hit(world, r, ray_t, rec) ==
    IF \/ world.hits = "always"
       \/ world.hits = "downward" /\ RLt(r.dir[2], I(0))
    THEN [ret |-> TRUE,
          rec |-> [rec EXCEPT !.t = I(1), !.p = ray_at(r, I(1)),
                              !.normal = IV(0, 1, 0), !.front_face = TRUE,
                              !.mat = world.mat]]
    ELSE [ret |-> FALSE, rec |-> rec]

\* material::scatter of the scene's material, with the random source at pos:
\* [ret, attenuation, scattered, pos]
material_scatter(mat, r_in, rec, pos) ==
    LET absorbed == [ret |-> FALSE, attenuation |-> Black,
                     scattered |-> ray(IV(0, 0, 0), IV(0, 0, 0)), pos |-> pos]
        half == [ret |-> TRUE, attenuation |-> <<Q(1, 2), Q(1, 2), Q(1, 2)>>,
                 scattered |-> ray(rec.p, IV(0, 1, 0)), pos |-> pos]
    IN  CASE mat = "absorb" -> absorbed
          [] mat = "glass" ->
                [ret |-> TRUE, attenuation |-> IV(1, 1, 1),
                 scattered |-> ray(rec.p, r_in.dir), pos |-> pos]
          [] mat = "half" -> half
          [] mat = "coin" ->
                IF RLt(random_double(pos, 0), Q(1, 2))
                THEN [half EXCEPT !.pos = advance(pos, 1)]
                ELSE [absorbed EXCEPT !.pos = advance(pos, 1)]
          [] mat = "pit" ->
                IF r_in.dir = IV(0, -1, 0) THEN half
                ELSE [half EXCEPT !.scattered = ray(rec.p, IV(0, -1, 0))]
          [] mat = "bright" -> [half EXCEPT !.attenuation = IV(2, 2, 2)]

\* the scenes, and one whose rays are scattered twice before they leave it
DeepWorlds == Worlds \cup {[hits |-> "downward", mat |-> "pit"]}

\* a scene whose material has an albedo above 1
BrightWorlds == {[hits |-> "downward", mat |-> "bright"]}

(***************************************************************************)
(* camera.h.                                                               *)
(***************************************************************************)
\* the largest image_width, samples_per_pixel and max_depth drawn, and the
\* most calls of render on one Camera
MaxWidth == 2
MaxSamples == 2
MaxDepth == 2
MaxRenders == 2

AspectRatios == {I(1), I(2)}

\* the members of a Camera as declared, with the four image parameters set
\* by the caller
CameraConfigs ==
    {[aspect_ratio |-> ar, image_width |-> w, samples_per_pixel |-> spp,
      max_depth |-> md, vfov |-> I(90), lookfrom |-> IV(0, 0, 0),
      lookat |-> IV(0, 0, -1), vup |-> IV(0, 1, 0), defocus_angle |-> I(0),
      focus_dist |-> I(10)] :
        ar \in AspectRatios, w \in 0 .. MaxWidth, spp \in 0 .. MaxSamples,
        md \in -1 .. MaxDepth}

\* std::tan(degrees_to_radians(degrees) / 2), for the angles that are drawn
tan_half_angle(degrees) ==
    CASE degrees = I(90) -> I(1)
      [] degrees = I(0) -> I(0)

\* the private members before initialize() has run: not initialised, and
\* never read before render has called initialize()
Uninitialized ==
    [image_height |-> 0, pixel_samples_scale |-> NaN, center |-> IV(0, 0, 0),
     pixel00_loc |-> IV(0, 0, 0), pixel_delta_u |-> IV(0, 0, 0),
     pixel_delta_v |-> IV(0, 0, 0), u |-> IV(0, 0, 0), v |-> IV(0, 0, 0),
     w |-> IV(0, 0, 0), defocus_disk_u |-> IV(0, 0, 0),
     defocus_disk_v |-> IV(0, 0, 0)]

\* pixel_samples_scale left at 1
pixel_samples_scale_one(c) == I(1)

\* pixel_samples_scale of Camera::initialize
pixel_samples_scale_of(c) == RDiv(I(1), I(c.samples_per_pixel))

\* Camera::initialize
initialize(c) ==
    LET height0 == RTrunc(RDiv(I(c.image_width), c.aspect_ratio))
        image_height == IF height0 < 1 THEN 1 ELSE height0
        h == tan_half_angle(c.vfov)
        viewport_height == RMul(RMul(I(2), h), c.focus_dist)
        viewport_width ==
            RMul(viewport_height, RDiv(I(c.image_width), I(image_height)))
        w == unit_vector(vec3_sub(c.lookfrom, c.lookat))
        u == unit_vector(cross(c.vup, w))
        v == cross(w, u)
        viewport_u == vec3_scale(viewport_width, u)
        viewport_v == vec3_scale(viewport_height, vec3_neg(v))
        pixel_delta_u == vec3_div(viewport_u, I(c.image_width))
        pixel_delta_v == vec3_div(viewport_v, I(image_height))
        viewport_upper_left ==
            vec3_sub(vec3_sub(vec3_sub(c.lookfrom, vec3_scale(c.focus_dist, w)),
                              vec3_div(viewport_u, I(2))),
                     vec3_div(viewport_v, I(2)))
        defocus_radius == RMul(c.focus_dist, tan_half_angle(c.defocus_angle))
    IN  [image_height |-> image_height,
         pixel_samples_scale |-> pixel_samples_scale_of(c),
         center |-> c.lookfrom,
         pixel00_loc |->
            vec3_add(viewport_upper_left,
                     vec3_scale(Q(1, 2), vec3_add(pixel_delta_u, pixel_delta_v))),
         pixel_delta_u |-> pixel_delta_u,
         pixel_delta_v |-> pixel_delta_v,
         u |-> u, v |-> v, w |-> w,
         defocus_disk_u |-> vec3_scale(defocus_radius, u),
         defocus_disk_v |-> vec3_scale(defocus_radius, v)]

\* Camera::sample_square without the shift by 0.5
sample_square_unshifted(pos) ==
    IF arg_order = "ltr" THEN vec3(random_double(pos, 0), random_double(pos, 1), I(0))
    ELSE vec3(random_double(pos, 1), random_double(pos, 0), I(0))

\* Camera::sample_square, with the random source at pos
sample_square(pos) ==
    LET first == RSub(random_double(pos, 0), Q(1, 2))
        second == RSub(random_double(pos, 1), Q(1, 2))
    IN  IF arg_order = "ltr" THEN vec3(first, second, I(0))
        ELSE vec3(second, first, I(0))

\* Camera::get_ray, with the random source at pos; the configurations drawn
\* have defocus_angle <= 0, so that the origin of the ray is center
get_ray(i, j, pos) ==
    LET offset == sample_square(pos)
        pixel_sample ==
            vec3_add(vec3_add(cam.pixel00_loc,
                              vec3_scale(RAdd(I(i), offset[1]), cam.pixel_delta_u)),
                     vec3_scale(RAdd(I(j), offset[2]), cam.pixel_delta_v))
        ray_origin == cam.center
    IN  [r |-> ray(ray_origin, vec3_sub(pixel_sample, ray_origin)),
         pos |-> advance(pos, 2)]

\* the background of Camera::ray_color
background(r) ==
    LET unit_direction == unit_vector(r.dir)
        a == RMul(Q(1, 2), RAdd(unit_direction[2], I(1)))
    IN  vec3_add(vec3_scale(RSub(I(1), a), IV(1, 1, 1)),
                 vec3_scale(a, <<Q(1, 2), Q(7, 10), I(1)>>))

\* the base case of Camera::ray_color with the test depth < 0
depth_exhausted_late(depth) == depth < 0

\* the base case of Camera::ray_color
depth_exhausted(depth) == depth <= 0

\* the base case of Camera::ray_color returning white
exhausted_color_white == IV(1, 1, 1)

\* what Camera::ray_color returns in the base case
exhausted_color == Black

\* Camera::ray_color without the multiplication by the attenuation
RECURSIVE ray_color_unattenuated(_, _, _, _)
ray_color_unattenuated(r, depth, world, pos) ==
    IF depth_exhausted(depth)
    THEN [col |-> exhausted_color, pos |-> pos, queries |-> 0, scatters |-> 0,
          depths |-> <<depth>>]
    ELSE LET h == world_hit(world, r, interval(Q(1, 1000), infinity), NewRecord)
         IN  IF h.ret
             THEN LET s == material_scatter(h.rec.mat, r, h.rec, pos)
                  IN  IF s.ret
                      THEN LET sub == ray_color_unattenuated(s.scattered, depth - 1,
                                                             world, s.pos)
                           IN  [col |-> sub.col,
                                pos |-> sub.pos,
                                queries |-> 1 + sub.queries,
                                scatters |-> 1 + sub.scatters,
                                depths |-> <<depth>> \o sub.depths]
                      ELSE [col |-> Black, pos |-> s.pos, queries |-> 1,
                            scatters |-> 1, depths |-> <<depth>>]
             ELSE [col |-> background(r), pos |-> pos, queries |-> 1,
                   scatters |-> 0, depths |-> <<depth>>]

\* Camera::ray_color, with the random source at pos:
\*   col       the colour returned
\*   pos       the random source afterwards
\*   queries   the calls of world.hit made
\*   scatters  the calls of material::scatter made
\*   depths    the depth argument of every call, the outermost first
RECURSIVE ray_color(_, _, _, _)
ray_color(r, depth, world, pos) ==
    IF depth_exhausted(depth)
    THEN [col |-> exhausted_color, pos |-> pos, queries |-> 0, scatters |-> 0,
          depths |-> <<depth>>]
    ELSE LET h == world_hit(world, r, interval(Q(1, 1000), infinity), NewRecord)
         IN  IF h.ret
             THEN LET s == material_scatter(h.rec.mat, r, h.rec, pos)
                  IN  IF s.ret
                      THEN LET sub == ray_color(s.scattered, depth - 1, world, s.pos)
                           IN  [col |-> vec3_mul(s.attenuation, sub.col),
                                pos |-> sub.pos,
                                queries |-> 1 + sub.queries,
                                scatters |-> 1 + sub.scatters,
                                depths |-> <<depth>> \o sub.depths]
                      ELSE [col |-> Black, pos |-> s.pos, queries |-> 1,
                            scatters |-> 1, depths |-> <<depth>>]
             ELSE [col |-> background(r), pos |-> pos, queries |-> 1,
                   scatters |-> 0, depths |-> <<depth>>]

\* no call of ray_color yet
NoCall == [col |-> Black, pos |-> 0, queries |-> 0, scatters |-> 0, depths |-> <<>>]

\* render with a Camera that remembers it was initialised
render_prologue_once(c, state, calls) ==
    IF calls > 0 THEN [cam |-> state, calls |-> calls]
    ELSE [cam |-> initialize(c), calls |-> calls + 1]

\* the first statement of Camera::render: initialize()
render_prologue(c, state, calls) == [cam |-> initialize(c), calls |-> calls + 1]

\* the inner loop of render with the test i <= image_width
row_has_more_inclusive(i, image_width) == i <= image_width

\* the test of the inner loop of render
row_has_more(i, image_width) == i < image_width

\* pixel_color carried over from the pixel before
pixel_color_carried(previous) == previous

\* the declaration of pixel_color in the loop body
pixel_color_init(previous) == Black

\* the configurations of a square image of the largest width, with depths
\* up to MaxDepth + 1
DeepConfigs ==
    {[c EXCEPT !.max_depth = md] :
        c \in {k \in CameraConfigs : /\ k.aspect_ratio = I(1)
                                     /\ k.image_width = MaxWidth
                                     /\ k.samples_per_pixel >= 1
                                     /\ k.max_depth = 0},
        md \in 0 .. MaxDepth + 1}

\* a Camera as constructed and configured out of configs, and a scene out of
\* worlds
CameraInitIn(configs, worlds) ==
    /\ cam_config \in configs
    /\ cam = Uninitialized
    /\ rd_world \in worlds
    /\ \E source \in RandomSources :
          /\ rng_stream = source[1]
          /\ arg_order = source[2]
    /\ rng_pos = 0
    /\ rd_pc = "idle"
    /\ rd_j = 0
    /\ rd_i = 0
    /\ rd_sample = 0
    /\ rd_pixel_color = Black
    /\ rd_pixel_pos = 0
    /\ rd_out = <<>>
    /\ rd_call = NoCall
    /\ rd_ray = ray(IV(0, 0, 0), IV(0, 0, 0))
    /\ rd_ray_pos = 0
    /\ rd_renders = 0
    /\ rd_init_calls = 0
    /\ rd_start_pos = 0
    /\ rd_history = <<>>

CameraInit == CameraInitIn(CameraConfigs, Worlds)

\* a call of render: initialize() and the header
RenderBegin ==
    /\ rd_pc = "idle"
    /\ rd_renders < MaxRenders
    /\ LET pro == render_prologue(cam_config, cam, rd_init_calls)
       IN  /\ cam' = pro.cam
           /\ rd_init_calls' = pro.calls
    /\ rd_renders' = rd_renders + 1
    /\ rd_start_pos' = rng_pos
    /\ rd_out' = <<>>
    /\ rd_j' = 0
    /\ rd_i' = 0
    /\ rd_pc' = "scan"
    /\ UNCHANGED <<cam_config, rd_world, rd_sample, rd_pixel_color, rd_pixel_pos,
                   rd_call, rd_ray, rd_ray_pos, rd_history, rngVars>>
    /\ UNCHANGED <<hlVars, matVars, intervalVars, mulAssignVars>>

\* the body of the inner loop begins: color pixel_color(0, 0, 0)
PixelBegin ==
    /\ rd_pc = "scan"
    /\ rd_j < cam.image_height
    /\ row_has_more(rd_i, cam_config.image_width)
    /\ rd_pixel_color' = pixel_color_init(rd_pixel_color)
    /\ rd_pixel_pos' = rng_pos
    /\ rd_sample' = 0
    /\ rd_pc' = "sample"
    /\ UNCHANGED <<cam_config, cam, rd_world, rd_j, rd_i, rd_out, rd_call, rd_ray, rd_ray_pos,
                   rd_renders, rd_init_calls, rd_start_pos, rd_history, rngVars>>
    /\ UNCHANGED <<hlVars, matVars, intervalVars, mulAssignVars>>

\* one sample: get_ray, ray_color and the sum
Sample ==
    /\ rd_pc = "sample"
    /\ rd_sample < cam_config.samples_per_pixel
    /\ LET g == get_ray(rd_i, rd_j, rng_pos)
           c == ray_color(g.r, cam_config.max_depth, rd_world, g.pos)
       IN  /\ rd_pixel_color' = vec3_add(rd_pixel_color, c.col)
           /\ rd_call' = c
           /\ rd_ray' = g.r
           /\ rd_ray_pos' = g.pos
           /\ rng_pos' = c.pos
    /\ rd_sample' = rd_sample + 1
    /\ UNCHANGED <<cam_config, cam, rd_world, rd_pc, rd_j, rd_i, rd_pixel_pos,
                   rd_out, rd_renders, rd_init_calls, rd_start_pos, rd_history,
                   rng_stream, arg_order>>
    /\ UNCHANGED <<hlVars, matVars, intervalVars, mulAssignVars>>

\* write_color(std::cout, pixel_samples_scale * pixel_color), and i++
PixelEnd ==
    /\ rd_pc = "sample"
    /\ rd_sample >= cam_config.samples_per_pixel
    /\ LET color == vec3_scale(cam.pixel_samples_scale, rd_pixel_color)
       IN  rd_out' = Append(rd_out, [i |-> rd_i, j |-> rd_j, pos |-> rd_pixel_pos,
                                     color |-> color, bytes |-> write_color(color)])
    /\ rd_i' = rd_i + 1
    /\ rd_pc' = "scan"
    /\ UNCHANGED <<cam_config, cam, rd_world, rd_j, rd_sample, rd_pixel_color,
                   rd_pixel_pos, rd_call, rd_ray, rd_ray_pos, rd_renders, rd_init_calls, rd_start_pos,
                   rd_history, rngVars>>
    /\ UNCHANGED <<hlVars, matVars, intervalVars, mulAssignVars>>

\* the inner loop ends: j++
RowEnd ==
    /\ rd_pc = "scan"
    /\ rd_j < cam.image_height
    /\ ~row_has_more(rd_i, cam_config.image_width)
    /\ rd_j' = rd_j + 1
    /\ rd_i' = 0
    /\ UNCHANGED <<cam_config, cam, rd_world, rd_pc, rd_sample, rd_pixel_color,
                   rd_pixel_pos, rd_out, rd_call, rd_ray, rd_ray_pos, rd_renders, rd_init_calls,
                   rd_start_pos, rd_history, rngVars>>
    /\ UNCHANGED <<hlVars, matVars, intervalVars, mulAssignVars>>

\* the outer loop ends: render returns
RenderEnd ==
    /\ rd_pc = "scan"
    /\ rd_j >= cam.image_height
    /\ rd_history' = Append(rd_history, [start |-> rd_start_pos, out |-> rd_out])
    /\ rd_pc' = "idle"
    /\ UNCHANGED <<cam_config, cam, rd_world, rd_j, rd_i, rd_sample, rd_pixel_color,
                   rd_pixel_pos, rd_out, rd_call, rd_ray, rd_ray_pos, rd_renders, rd_init_calls,
                   rd_start_pos, rngVars>>
    /\ UNCHANGED <<hlVars, matVars, intervalVars, mulAssignVars>>

CameraNext ==
    RenderBegin \/ PixelBegin \/ Sample \/ PixelEnd \/ RowEnd \/ RenderEnd

(***************************************************************************)
(* vec3.h and material.h: random_unit_vector, lambertian and metal.        *)
(***************************************************************************)
\* random_double(min, max): the n-th next value of the random source, scaled
random_double_in(min, max, pos, n) ==
    RAdd(min, RMul(RSub(max, min), random_double(pos, n)))

\* vec3::random(min, max): three calls of random_double(min, max) as the
\* arguments of a constructor
vec3_random(min, max, pos) ==
    LET d(n) == random_double_in(min, max, pos, n)
    IN  IF arg_order = "ltr" THEN vec3(d(0), d(1), d(2)) ELSE vec3(d(2), d(1), d(0))

\* the test of random_unit_vector, 1e-160 < lensq && lensq <= 1; no value that
\* is drawn has a squared length in (0, 1e-160]
accepts(lensq) == RLt(I(0), lensq) /\ RLe(lensq, I(1))

\* vec3::near_zero, as written: the comparison of e[1] is inside std::fabs
near_zero(v) ==
    LET s == Q(1, 100000000)
    IN  RLt(RAbs(v[1]), s) /\ RLt(v[2], s) /\ RLt(RAbs(v[3]), s)

\* no object of a material class
NoMaterial == [kind |-> "none", albedo |-> Black, fuzz |-> I(0)]

\* lambertian::lambertian (fuzz is a member of metal only)
lambertian(albedo) == [kind |-> "lambertian", albedo |-> albedo, fuzz |-> I(0)]

\* metal::metal
metal(albedo, fuzz) ==
    [kind |-> "metal", albedo |-> albedo,
     fuzz |-> IF RLt(fuzz, I(1)) THEN fuzz ELSE I(1)]

\* lambertian::scatter that absorbs a degenerate direction
lambertian_scatter_absorbing(mat, r_in, rec, sample) ==
    [ret |-> ~near_zero(vec3_add(rec.normal, sample)), attenuation |-> mat.albedo,
     scattered |-> ray(rec.p, vec3_add(rec.normal, sample))]

\* lambertian::scatter, sample being what random_unit_vector() returned
lambertian_scatter(mat, r_in, rec, sample) ==
    LET direction == vec3_add(rec.normal, sample)
        scatter_direction == IF near_zero(direction) THEN rec.normal ELSE direction
    IN  [ret |-> TRUE, attenuation |-> mat.albedo,
         scattered |-> ray(rec.p, scatter_direction)]

\* metal::scatter, sample being what random_unit_vector() returned
metal_scatter(mat, r_in, rec, sample) ==
    LET reflected == vec3_add(unit_vector(reflect(r_in.dir, rec.normal)),
                              vec3_scale(mat.fuzz, sample))
        scattered == ray(rec.p, reflected)
    IN  [ret |-> RGt(dot(scattered.dir, rec.normal), I(0)),
         attenuation |-> mat.albedo, scattered |-> scattered]

\* the base colours drawn: one inside [0,1]^3 and one outside
Albedos == {<<Q(1, 2), Q(7, 10), I(1)>>, IV(2, 0, -1)}

\* the fuzz arguments drawn: negative, zero, inside (0, 1), one, above one
FuzzArguments == {Q(-1, 2), I(0), Q(1, 2), I(1), I(2)}

Materials ==
    {lambertian(a) : a \in Albedos}
        \cup {metal(a, f) : a \in Albedos, f \in FuzzArguments}

\* incident rays: oblique with a direction of length 5, head-on with a
\* direction of length 2, grazing, from behind the surface, and oblique with a
\* direction of irrational length
IncidentRays ==
    {ray(IV(0, 0, 0), IV(3, -4, 0)), ray(IV(0, 5, 0), IV(0, -2, 0)),
     ray(IV(0, 0, 0), IV(1, 0, 0)), ray(IV(0, 0, 0), IV(0, 1, 0)),
     ray(IV(0, 0, 0), IV(1, -1, 0))}

\* hit records: a point and a unit normal (upward, oblique, downward)
HitRecords ==
    {[NewRecord EXCEPT !.p = IV(1, 2, 3), !.normal = IV(0, 1, 0), !.t = I(1),
                       !.front_face = TRUE, !.mat = 1],
     [NewRecord EXCEPT !.p = IV(0, 0, 0), !.normal = <<Q(3, 5), I(0), Q(4, 5)>>,
                       !.t = I(2), !.front_face = FALSE, !.mat = 1],
     [NewRecord EXCEPT !.p = IV(0, 2, 0), !.normal = IV(0, -1, 0), !.t = I(1),
                       !.front_face = TRUE, !.mat = 1]}

\* random sources: one whose first candidate is accepted, one whose first
\* candidate is rejected and whose second is (0,-1,0), one whose candidates are
\* all rejected, and one whose first candidate has length 1
ScatterStreams ==
    {<<Q(1, 2), Q(1, 2), Q(3, 4), Q(1, 4)>>,
     <<I(0), I(0), I(0), Q(1, 2), I(0), Q(1, 2)>>,
     <<I(0)>>,
     <<Q(4, 5), Q(9, 10), Q(1, 2)>>}

\* nothing returned yet
NoResult ==
    [ret |-> FALSE, attenuation |-> Black, scattered |-> ray(IV(0, 0, 0), IV(0, 0, 0))]

ScatterInit ==
    /\ mt_mat \in Materials
    /\ mt_r_in \in IncidentRays
    /\ mt_rec \in HitRecords
    /\ rng_stream \in ScatterStreams
    /\ rng_pos = 0
    /\ arg_order \in ArgOrders
    /\ mt_pc = "call"
    /\ mt_rejected = FALSE
    /\ mt_sample = IV(0, 0, 0)
    /\ mt_result = NoResult
    /\ mt_branch = "none"

\* scatter is entered and calls random_unit_vector()
ScatterCall ==
    /\ mt_pc = "call"
    /\ mt_pc' = "sampling"
    /\ UNCHANGED <<mt_mat, mt_r_in, mt_rec, mt_rejected, mt_sample, mt_result, mt_branch>>
    /\ UNCHANGED <<hlVars, rngVars, cameraVars, intervalVars, mulAssignVars>>

\* an iteration of the loop of random_unit_vector that rejects its candidate
RandomUnitVectorReject ==
    /\ mt_pc = "sampling"
    /\ ~accepts(length_squared(vec3_random(I(-1), I(1), rng_pos)))
    /\ rng_pos' = advance(rng_pos, 3)
    /\ mt_rejected' = TRUE
    /\ UNCHANGED <<mt_mat, mt_r_in, mt_rec, mt_pc, mt_sample, mt_result, mt_branch>>
    /\ UNCHANGED <<hlVars, rng_stream, arg_order, cameraVars, intervalVars, mulAssignVars>>

\* the iteration that returns p / sqrt(lensq)
RandomUnitVectorAccept ==
    /\ mt_pc = "sampling"
    /\ LET p == vec3_random(I(-1), I(1), rng_pos)
           lensq == length_squared(p)
       IN  /\ accepts(lensq)
           /\ mt_sample' = vec3_div(p, RSqrt(lensq))
    /\ rng_pos' = advance(rng_pos, 3)
    /\ mt_pc' = "sampled"
    /\ UNCHANGED <<mt_mat, mt_r_in, mt_rec, mt_rejected, mt_result, mt_branch>>
    /\ UNCHANGED <<hlVars, rng_stream, arg_order, cameraVars, intervalVars, mulAssignVars>>

\* the rest of scatter
ScatterReturn ==
    /\ mt_pc = "sampled"
    /\ mt_result' = IF mt_mat.kind = "metal"
                    THEN metal_scatter(mt_mat, mt_r_in, mt_rec, mt_sample)
                    ELSE lambertian_scatter(mt_mat, mt_r_in, mt_rec, mt_sample)
    /\ mt_pc' = "done"
    /\ UNCHANGED <<mt_mat, mt_r_in, mt_rec, mt_rejected, mt_sample, mt_branch>>
    /\ UNCHANGED <<hlVars, rngVars, cameraVars, intervalVars, mulAssignVars>>

ScatterNext ==
    ScatterCall \/ RandomUnitVectorReject \/ RandomUnitVectorAccept \/ ScatterReturn

(***************************************************************************)
(* vec3.h: the loop of random_unit_vector, one action per statement.       *)
(***************************************************************************)
\* auto p = vec3::random(-1, 1)
SamplerDraw ==
    /\ mt_pc = "sampling"
    /\ mt_sample' = vec3_random(I(-1), I(1), rng_pos)
    /\ rng_pos' = advance(rng_pos, 3)
    /\ mt_pc' = "drawn"
    /\ UNCHANGED <<mt_mat, mt_r_in, mt_rec, mt_rejected, mt_result, mt_branch>>
    /\ UNCHANGED <<hlVars, rng_stream, arg_order, cameraVars, intervalVars, mulAssignVars>>

\* the test fails: the loop goes round
SamplerReject ==
    /\ mt_pc = "drawn"
    /\ ~accepts(length_squared(mt_sample))
    /\ mt_rejected' = TRUE
    /\ mt_pc' = "sampling"
    /\ UNCHANGED <<mt_mat, mt_r_in, mt_rec, mt_sample, mt_result, mt_branch>>
    /\ UNCHANGED <<hlVars, rngVars, cameraVars, intervalVars, mulAssignVars>>

\* the test holds: return p / sqrt(lensq)
SamplerAccept ==
    /\ mt_pc = "drawn"
    /\ accepts(length_squared(mt_sample))
    /\ mt_sample' = vec3_div(mt_sample, RSqrt(length_squared(mt_sample)))
    /\ mt_pc' = "sampled"
    /\ UNCHANGED <<mt_mat, mt_r_in, mt_rec, mt_rejected, mt_result, mt_branch>>
    /\ UNCHANGED <<hlVars, rngVars, cameraVars, intervalVars, mulAssignVars>>

SamplerNext ==
    ScatterCall \/ SamplerDraw \/ SamplerReject \/ SamplerAccept \/ ScatterReturn

\* a statement of the call has been executed: control has moved on
StatementDone ==
    /\ mt_pc # "done"
    /\ mt_pc' \in {"sampling", "drawn", "sampled", "done"}

(***************************************************************************)
(* vec3.h and material.h: refract and dialectric.                          *)
(***************************************************************************)
\* std::pow(x, 5)
RPow5(x) == RMul(RMul(RMul(x, x), RMul(x, x)), x)

\* refract
refract(uv, n, etai_over_etat) ==
    LET cos_theta == RFmin(dot(vec3_neg(uv), n), I(1))
        r_out_perp == vec3_scale(etai_over_etat, vec3_add(uv, vec3_scale(cos_theta, n)))
        r_out_parallel ==
            vec3_scale(RNeg(RSqrt(RAbs(RSub(I(1), length_squared(r_out_perp))))), n)
    IN  vec3_add(r_out_perp, r_out_parallel)

\* dialectric::dialectric
dialectric(refraction_index) ==
    [kind |-> "dialectric", refraction_index |-> refraction_index]

\* dialectric::reflectance
reflectance(cosine, refraction_index) ==
    LET r0 == RDiv(RSub(I(1), refraction_index), RAdd(I(1), refraction_index))
        r0sq == RMul(r0, r0)
    IN  RAdd(r0sq, RMul(RSub(I(1), r0sq), RPow5(RSub(I(1), cosine))))

\* dialectric::scatter using refraction_index on both faces
refraction_ratio_one_sided(mat, rec) == mat.refraction_index

\* the ratio of refraction indices dialectric::scatter uses
refraction_ratio(mat, rec) ==
    IF rec.front_face THEN RDiv(I(1), mat.refraction_index) ELSE mat.refraction_index

\* cos_theta of dialectric::scatter
scatter_cos_theta(r_in, rec) ==
    RFmin(dot(vec3_neg(unit_vector(r_in.dir)), rec.normal), I(1))

\* cannot_refract of dialectric::scatter
cannot_refract(mat, r_in, rec) ==
    LET cos_theta == scatter_cos_theta(r_in, rec)
        sin_theta == RSqrt(RSub(I(1), RMul(cos_theta, cos_theta)))
    IN  RGt(RMul(refraction_ratio(mat, rec), sin_theta), I(1))

\* dialectric::scatter that absorbs the ray when it cannot refract
dialectric_scatter_absorbing(mat, r_in, rec, pos) ==
    [ret |-> ~cannot_refract(mat, r_in, rec), attenuation |-> IV(1, 1, 1),
     scattered |-> ray(rec.p, reflect(unit_vector(r_in.dir), rec.normal)),
     pos |-> pos, branch |-> "reflect"]

\* dialectric::scatter, with the random source at pos: the result, the random
\* source afterwards, and the branch taken ("total", "fresnel" or "refract")
dialectric_scatter(mat, r_in, rec, pos) ==
    LET ri == refraction_ratio(mat, rec)
        unit_direction == unit_vector(r_in.dir)
        total == cannot_refract(mat, r_in, rec)
        fresnel == /\ ~total
                   /\ RGt(reflectance(scatter_cos_theta(r_in, rec), ri),
                          random_double(pos, 0))
        direction == IF total \/ fresnel THEN reflect(unit_direction, rec.normal)
                     ELSE refract(unit_direction, rec.normal, ri)
    IN  [ret |-> TRUE, attenuation |-> IV(1, 1, 1),
         scattered |-> ray(rec.p, direction),
         pos |-> IF total THEN pos ELSE advance(pos, 1),
         branch |-> IF total THEN "total" ELSE IF fresnel THEN "fresnel" ELSE "refract"]

\* the refraction indices drawn: glass, air, a bubble in glass, and zero
RefractionIndices == {Q(3, 2), I(1), Q(2, 3), I(0)}

\* incident rays of the dielectric: oblique at two angles, head-on, and
\* leaving the surface
DielectricRays ==
    {ray(IV(0, 0, 0), IV(3, -4, 0)), ray(IV(0, 0, 0), IV(4, -3, 0)),
     ray(IV(0, 5, 0), IV(0, -2, 0)), ray(IV(0, 0, 0), IV(0, 1, 0))}

\* hit records of the dielectric: a front-face and a back-face hit
DielectricRecords ==
    {[NewRecord EXCEPT !.p = IV(1, 2, 3), !.normal = IV(0, 1, 0), !.t = I(1),
                       !.front_face = ff, !.mat = 1] : ff \in BOOLEAN}

\* random sources of the dielectric: constant 0, constant 3/4, and alternating
DielectricStreams == {<<I(0)>>, <<Q(3, 4)>>, <<Q(3, 4), I(0)>>}

DielectricInit ==
    /\ mt_mat \in {dialectric(x) : x \in RefractionIndices}
    /\ mt_r_in \in DielectricRays
    /\ mt_rec \in DielectricRecords
    /\ rng_stream \in DielectricStreams
    /\ rng_pos = 0
    /\ arg_order = "ltr"
    /\ mt_pc = "call"
    /\ mt_rejected = FALSE
    /\ mt_sample = IV(0, 0, 0)
    /\ mt_result = NoResult
    /\ mt_branch = "none"

\* a call of dialectric::scatter; the object scatters again afterwards, with
\* the random source where the call left it
DielectricScatter ==
    /\ mt_pc \in {"call", "done"}
    /\ LET res == dialectric_scatter(mt_mat, mt_r_in, mt_rec, rng_pos)
       IN  /\ mt_result' = [ret |-> res.ret, attenuation |-> res.attenuation,
                            scattered |-> res.scattered]
           /\ mt_branch' = res.branch
           /\ rng_pos' = res.pos
    /\ mt_pc' = "done"
    /\ UNCHANGED <<mt_mat, mt_r_in, mt_rec, mt_rejected, mt_sample>>
    /\ UNCHANGED <<hlVars, rng_stream, arg_order, cameraVars, intervalVars, mulAssignVars>>

(***************************************************************************)
(* interval.h: calls of contains and surrounds.                            *)
(***************************************************************************)
\* the doubles drawn as bounds and as arguments
IntervalValues ==
    {RNeg(infinity), I(-1), I(0), Q(1, 2), I(1), I(2), I(5), infinity}

\* the intervals drawn: every pair of bounds, the default-constructed
\* interval and the two static members
IntervalObjects ==
    {interval(lo, hi) : lo \in IntervalValues, hi \in IntervalValues}
        \cup {interval_default, interval_empty, interval_universe}

IntervalInit ==
    /\ iv_self \in IntervalObjects
    /\ iv_x \in IntervalValues \cup {NaN}
    /\ iv_op = "none"
    /\ iv_ret = FALSE

\* a call of contains(x)
IntervalContains ==
    /\ iv_op' = "contains"
    /\ iv_ret' = contains(iv_self, iv_x)
    /\ UNCHANGED <<iv_self, iv_x>>
    /\ UNCHANGED <<hlVars, rngVars, cameraVars, matVars, mulAssignVars>>

\* a call of surrounds(x)
IntervalSurrounds ==
    /\ iv_op' = "surrounds"
    /\ iv_ret' = surrounds(iv_self, iv_x)
    /\ UNCHANGED <<iv_self, iv_x>>
    /\ UNCHANGED <<hlVars, rngVars, cameraVars, matVars, mulAssignVars>>

IntervalNext == IntervalContains \/ IntervalSurrounds

(***************************************************************************)
(* vec3.h: vec3::operator*=(double t), whose body is the one statement     *)
(* return *this *= 1 / t.  The statement calls the operator again and      *)
(* nothing ends the recursion: what an execution does then is not defined  *)
(* by the language, and a build either pushes a stack frame for every      *)
(* call until the stack is exhausted, or turns the call into a jump and    *)
(* runs for ever.                                                          *)
(***************************************************************************)
\* the stack frames a call can push before the stack is exhausted
MaxFrames == 3

\* the vectors and the non-zero scalars drawn
MulAssignVectors == {IV(0, 0, 0), IV(1, 2, 3), IV(-1, 0, 4), <<Q(1, 2), I(0), I(-2)>>}

MulAssignScalars == {I(1), I(-1), I(2), Q(1, 2), I(-3), Q(3, 4)}

MulAssignBuilds == {"frames", "tailcall"}

MulAssignInit ==
    /\ ma_self \in MulAssignVectors
    /\ ma_t \in MulAssignScalars
    /\ ma_frames = 0
    /\ ma_build \in MulAssignBuilds
    /\ ma_pc = "call"

\* v *= t is called
MulAssignCall ==
    /\ ma_pc = "call"
    /\ ma_frames' = 1
    /\ ma_pc' = "active"
    /\ UNCHANGED <<ma_self, ma_t, ma_build>>
    /\ UNCHANGED <<hlVars, rngVars, cameraVars, matVars, intervalVars>>

\* return *this *= 1 / t: the operator is entered again with 1 / t
MulAssignRecurse ==
    /\ ma_pc = "active"
    /\ ma_build = "tailcall" \/ ma_frames < MaxFrames
    /\ ma_t' = RDiv(I(1), ma_t)
    /\ ma_frames' = IF ma_build = "tailcall" THEN ma_frames ELSE ma_frames + 1
    /\ UNCHANGED <<ma_self, ma_build, ma_pc>>
    /\ UNCHANGED <<hlVars, rngVars, cameraVars, matVars, intervalVars>>

\* the same statement when no frame is left
MulAssignOverflow ==
    /\ ma_pc = "active"
    /\ ma_build = "frames"
    /\ ma_frames >= MaxFrames
    /\ ma_pc' = "overflow"
    /\ UNCHANGED <<ma_self, ma_t, ma_frames, ma_build>>
    /\ UNCHANGED <<hlVars, rngVars, cameraVars, matVars, intervalVars>>

MulAssignNext == MulAssignCall \/ MulAssignRecurse \/ MulAssignOverflow

(***************************************************************************)
(* The specifications.  Each runs one part of the program and leaves the   *)
(* variables of the other parts at rest.                                   *)
(***************************************************************************)
\* the intersection search at rest
HitIdle ==
    /\ hl_objects = <<>>
    /\ hl_r = ray(IV(0, 0, 0), IV(0, 0, 0))
    /\ hl_ray_t = interval(NaN, NaN)
    /\ hl_rec = NewRecord
    /\ hl_temp_rec = NewRecord
    /\ hl_hit_anything = FALSE
    /\ hl_closest_so_far = NaN
    /\ hl_index = 0
    /\ hl_ret = FALSE
    /\ hl_pc = "idle"

\* the random source at rest
RngIdle ==
    /\ rng_stream = <<I(0)>>
    /\ rng_pos = 0
    /\ arg_order = "ltr"

\* no call of render
CameraIdle ==
    /\ cam_config = CHOOSE c \in CameraConfigs : TRUE
    /\ cam = Uninitialized
    /\ rd_world = [hits |-> "never", mat |-> "absorb"]
    /\ rd_pc = "off"
    /\ rd_j = 0
    /\ rd_i = 0
    /\ rd_sample = 0
    /\ rd_pixel_color = Black
    /\ rd_pixel_pos = 0
    /\ rd_out = <<>>
    /\ rd_call = NoCall
    /\ rd_ray = ray(IV(0, 0, 0), IV(0, 0, 0))
    /\ rd_ray_pos = 0
    /\ rd_renders = 0
    /\ rd_init_calls = 0
    /\ rd_start_pos = 0
    /\ rd_history = <<>>

\* no call of scatter
ScatterIdle ==
    /\ mt_mat = NoMaterial
    /\ mt_r_in = ray(IV(0, 0, 0), IV(0, 0, 0))
    /\ mt_rec = NewRecord
    /\ mt_pc = "off"
    /\ mt_rejected = FALSE
    /\ mt_sample = IV(0, 0, 0)
    /\ mt_result = NoResult
    /\ mt_branch = "none"

\* no call on an interval
IntervalIdle ==
    /\ iv_self = interval_default
    /\ iv_x = NaN
    /\ iv_op = "off"
    /\ iv_ret = FALSE

\* no call of vec3::operator*=
MulAssignIdle ==
    /\ ma_self = IV(0, 0, 0)
    /\ ma_t = I(1)
    /\ ma_frames = 0
    /\ ma_build = "frames"
    /\ ma_pc = "off"

\* hittable_list::hit on every scene, ray and interval drawn
InitHit == HitInit /\ RngIdle /\ CameraIdle /\ ScatterIdle /\ IntervalIdle /\ MulAssignIdle

SpecHit == InitHit /\ [][HitNext]_vars

\* Camera::render, called up to MaxRenders times on one Camera
InitRender == CameraInit /\ HitIdle /\ ScatterIdle /\ IntervalIdle /\ MulAssignIdle

SpecRender == InitRender /\ [][CameraNext]_vars

InitRenderBright ==
    CameraInitIn(CameraConfigs, BrightWorlds) /\ HitIdle /\ ScatterIdle /\ IntervalIdle /\ MulAssignIdle

\* Camera::render of a scene whose material has an albedo above 1
SpecRenderBright == InitRenderBright /\ [][CameraNext]_vars

InitRenderDeep ==
    CameraInitIn(DeepConfigs, DeepWorlds) /\ HitIdle /\ ScatterIdle /\ IntervalIdle /\ MulAssignIdle

\* Camera::render with depths up to MaxDepth + 1
SpecRenderDeep == InitRenderDeep /\ [][CameraNext]_vars

\* one call of scatter on every material, ray, record and random source drawn
InitScatter == ScatterInit /\ HitIdle /\ CameraIdle /\ IntervalIdle /\ MulAssignIdle

SpecScatter == InitScatter /\ [][ScatterNext]_vars

InitSampler == ScatterInit /\ HitIdle /\ CameraIdle /\ IntervalIdle /\ MulAssignIdle

\* one call of scatter with the loop of random_unit_vector statement by
\* statement.  The thread of the call keeps running: while the call has not
\* returned its next statement is executed, and no statement blocks
SpecSampler ==
    InitSampler /\ [][SamplerNext]_vars /\ WF_mt_pc(StatementDone)

InitDielectric == DielectricInit /\ HitIdle /\ CameraIdle /\ IntervalIdle /\ MulAssignIdle

\* calls of dialectric::scatter on every object, ray, record and random
\* source drawn
SpecDielectric == InitDielectric /\ [][DielectricScatter]_vars

InitInterval == IntervalInit /\ HitIdle /\ RngIdle /\ CameraIdle /\ ScatterIdle /\ MulAssignIdle

\* contains and surrounds on every interval and argument drawn
SpecInterval == InitInterval /\ [][IntervalNext]_vars

InitMulAssign ==
    MulAssignInit /\ HitIdle /\ RngIdle /\ CameraIdle /\ ScatterIdle /\ IntervalIdle

\* a call of vec3::operator*= on every vector and scalar drawn; the thread
\* of the call keeps running
SpecMulAssign ==
    InitMulAssign /\ [][MulAssignNext]_vars /\ WF_mulAssignVars(MulAssignNext)

(***************************************************************************)
(* Claims about the intersection search (under SpecHit).                   *)
(***************************************************************************)
\* the positions of the list
Positions == 1 .. Len(hl_objects)

\* what object k reports when queried alone with the original interval
Alone(k) == sphere_hit(hl_objects[k], hl_r, hl_ray_t, NewRecord)

\* object k has a root of its quadratic strictly inside the original interval
HasRootInside(k) ==
    /\ RLe(I(0), discriminant(hl_objects[k], hl_r))
    /\ \/ surrounds(hl_ray_t, sphere_root(hl_objects[k], hl_r, -1))
       \/ surrounds(hl_ray_t, sphere_root(hl_objects[k], hl_r, 1))

\* C1: hittable_list::hit returns true iff some sphere has a root strictly
\* inside (min, max), and the t of the returned record is the minimum, over
\* the spheres of the list, of the t each reports when queried alone with
\* the original interval.
C1_ClosestHit ==
    hl_pc = "done" =>
        /\ hl_hit_anything <=> \E k \in Positions : HasRootInside(k)
        /\ hl_hit_anything =>
              /\ \E k \in Positions : Alone(k).ret /\ REq(hl_rec.t, Alone(k).rec.t)
              /\ \A k \in Positions : Alone(k).ret => RLe(hl_rec.t, Alone(k).rec.t)

\* C1: a list whose second sphere is hit closer than its first, searched to
\* the end
C1_Witness ==
    /\ hl_pc = "done"
    /\ hl_hit_anything
    /\ Len(hl_objects) >= 2
    /\ Alone(1).ret
    /\ Alone(2).ret
    /\ RLt(Alone(2).rec.t, Alone(1).rec.t)

\* the object whose hit the last iteration reported
LastObject == hl_objects[hl_index - 1]

NormalAgainstRay(rec, s) ==
    /\ ~RGt(dot(hl_r.dir, rec.normal), I(0))
    /\ RGt(discriminant(s, hl_r), I(0)) => RLt(dot(hl_r.dir, rec.normal), I(0))
    /\ REq(discriminant(s, hl_r), I(0)) => ~RLt(dot(hl_r.dir, rec.normal), I(0))

FirstQueried == hl_pc = "loop" /\ hl_index = 2

\* the quadratic of the ray and a sphere of centre and radius given
QuadA == length_squared(hl_r.dir)

QuadH(center) == dot(hl_r.dir, vec3_sub(center, hl_r.orig))

QuadDisc(center, radius) ==
    RSub(RMul(QuadH(center), QuadH(center)),
         RMul(QuadA, RSub(length_squared(vec3_sub(center, hl_r.orig)),
                          RMul(radius, radius))))

SmallerRoot(center, radius) ==
    RDiv(RSub(QuadH(center), RSqrt(QuadDisc(center, radius))), QuadA)

LargerRoot(center, radius) ==
    RDiv(RAdd(QuadH(center), RSqrt(QuadDisc(center, radius))), QuadA)

\* x lies strictly inside (ray_t.min, ray_t.max)
StrictlyInside(x) == RLt(hl_ray_t.min, x) /\ RLt(x, hl_ray_t.max)

\* the ray has a unit direction and passes through the point
UnitRayThrough(center) ==
    /\ REq(QuadA, I(1))
    /\ vec3_eq(cross(hl_r.dir, vec3_sub(center, hl_r.orig)), IV(0, 0, 0))
    /\ RLe(I(0), QuadH(center))

\* C16: sphere::hit reports no hit when the discriminant h*h - a*c is
\* negative; otherwise it returns the smaller root (h - sqrt(disc))/a when
\* that root lies strictly inside (ray_t.min, ray_t.max), else the larger
\* root (h + sqrt(disc))/a when that one lies strictly inside, else no hit.
\* For a ray with unit direction through the centre the two roots are
\* dist - radius and dist + radius, and when the interval excludes the near
\* root the far root is the one reported.
C16_RootSelection ==
    FirstQueried =>
        LET s == hl_objects[1]
            disc == QuadDisc(s.center, s.radius)
            near == SmallerRoot(s.center, s.radius)
            far == LargerRoot(s.center, s.radius)
            dist == length(vec3_sub(s.center, hl_r.orig))
        IN  /\ RLt(disc, I(0)) => ~hl_ret
            /\ (~RLt(disc, I(0)) /\ StrictlyInside(near)) =>
                  hl_ret /\ hl_temp_rec.t = near
            /\ (~RLt(disc, I(0)) /\ ~StrictlyInside(near) /\ StrictlyInside(far)) =>
                  hl_ret /\ hl_temp_rec.t = far
            /\ (~RLt(disc, I(0)) /\ ~StrictlyInside(near) /\ ~StrictlyInside(far)) =>
                  ~hl_ret
            /\ UnitRayThrough(s.center) =>
                  /\ near = RSub(dist, s.radius)
                  /\ far = RAdd(dist, s.radius)
                  /\ RSub(far, near) = RMul(I(2), s.radius)

\* C16: a unit ray through the centre that starts inside the sphere, whose
\* near root lies outside the interval: the far root is the one reported
C16_Witness ==
    /\ FirstQueried
    /\ UnitRayThrough(hl_objects[1].center)
    /\ RLt(length(vec3_sub(hl_objects[1].center, hl_r.orig)), hl_objects[1].radius)
    /\ ~StrictlyInside(SmallerRoot(hl_objects[1].center, hl_objects[1].radius))
    /\ hl_ret
    /\ hl_temp_rec.t = LargerRoot(hl_objects[1].center, hl_objects[1].radius)

\* (p - center) / radius for the hit point of rec on sphere s
OutwardNormal(rec, s) == vec3_div(vec3_sub(rec.p, s.center), s.radius)

\* the origin of the ray lies strictly inside sphere s
StartsInside(s) ==
    RLt(length_squared(vec3_sub(s.center, hl_r.orig)), RMul(s.radius, s.radius))

\* rec was filled by a hit on sphere s: front_face and normal are oriented
\* by the outward normal
FaceOrientation(rec, s) ==
    /\ rec.front_face <=> RLt(dot(hl_r.dir, OutwardNormal(rec, s)), I(0))
    /\ rec.front_face => rec.normal = OutwardNormal(rec, s)
    /\ ~rec.front_face => rec.normal = vec3_neg(OutwardNormal(rec, s))
    /\ StartsInside(s) =>
          /\ ~rec.front_face
          /\ RLt(dot(rec.normal, vec3_sub(rec.p, s.center)), I(0))

\* C17: for every reported hit, front_face is true iff
\* dot(ray.direction, outward_normal) < 0, where outward_normal is
\* (p - center)/radius; rec.normal is outward_normal when front_face is true
\* and -outward_normal when it is false, and a ray that starts inside a
\* sphere gets front_face = false and a normal that points inward.
C17_FaceOrientation ==
    /\ (hl_pc = "loop" /\ hl_ret) => FaceOrientation(hl_temp_rec, LastObject)
    /\ (hl_pc = "done" /\ hl_hit_anything) =>
          FaceOrientation(hl_rec, hl_objects[hl_rec.mat])

\* C17: the search returned the back-face hit of a ray that starts inside
\* the first sphere, of radius 2, with the normal the negated outward normal
C17_Witness ==
    /\ hl_pc = "done"
    /\ hl_hit_anything
    /\ Len(hl_objects) = 2
    /\ hl_rec.mat = 1
    /\ StartsInside(hl_objects[1])
    /\ hl_objects[1].radius = I(2)
    /\ ~hl_rec.front_face
    /\ hl_rec.normal = vec3_neg(OutwardNormal(hl_rec, hl_objects[1]))
    /\ hl_rec.normal # OutwardNormal(hl_rec, hl_objects[1])

\* the search is in its loop or has returned
Searching == hl_pc \in {"loop", "done"}

\* C20: when hittable_list::hit (or sphere::hit) reports a miss the record
\* passed in is left completely unchanged: the caller's record keeps the
\* values it came with, and a sphere that misses leaves the record it was
\* handed as it was.  When the search reports a hit, the five fields p,
\* normal, mat, t and front_face of the record all come from one and the
\* same sphere, the closest one hit, and rec.mat is that sphere's material.
C20_RecordFrame ==
    Searching =>
        /\ ~hl_hit_anything => hl_rec = CallerRecord /\ hl_temp_rec = NewRecord
        /\ hl_hit_anything =>
              /\ hl_temp_rec = hl_rec
              /\ hl_rec.mat \in Positions
              /\ hl_rec.mat < hl_index
              /\ hl_rec.mat = hl_objects[hl_rec.mat].mat
              /\ Alone(hl_rec.mat).ret
              /\ hl_rec = Alone(hl_rec.mat).rec
              /\ \A k \in 1 .. hl_index - 1 :
                    Alone(k).ret => RLe(hl_rec.t, Alone(k).rec.t)

\* C20: a search that hit its first sphere, then missed its second one with
\* the shrunken interval although that one has roots, and returned
C20_Witness ==
    /\ hl_pc = "done"
    /\ Len(hl_objects) = 2
    /\ hl_hit_anything
    /\ ~hl_ret
    /\ hl_rec.mat = 1
    /\ ~RLt(discriminant(hl_objects[2], hl_r), I(0))
    /\ hl_objects[2] # [hl_objects[1] EXCEPT !.mat = 2]

\* C20: a search that missed every sphere of a list of two and returned
C20_MissWitness ==
    /\ hl_pc = "done"
    /\ Len(hl_objects) = 2
    /\ ~hl_hit_anything
    /\ ~RLt(discriminant(hl_objects[2], hl_r), I(0))
    /\ hl_rec = CallerRecord

\* the orders in which the objects of the list can be inserted
InsertionOrders ==
    {f \in [Positions -> Positions] : \A k \in Positions : \E j \in Positions : f[j] = k}

\* the list with its objects in the order f
Permuted(f) == [k \in Positions |-> hl_objects[f[k]]]

\* C21: the t returned by hittable_list::hit is the same for every
\* permutation of the objects in the list; when two primitives report
\* exactly the same t, the returned record is that of the one encountered
\* first in insertion order: a later primitive with an equal t never
\* replaces the record.
C21_OrderIndependentT ==
    hl_pc = "done" =>
        /\ hittable_list_hit(hl_objects, hl_r, hl_ray_t, CallerRecord) =
              [ret |-> hl_hit_anything, rec |-> hl_rec]
        /\ \A f \in InsertionOrders :
              LET other == hittable_list_hit(Permuted(f), hl_r, hl_ray_t, CallerRecord)
              IN  /\ other.ret = hl_hit_anything
                  /\ other.rec.t = hl_rec.t
        /\ hl_hit_anything =>
              \A k \in Positions :
                  (Alone(k).ret /\ REq(Alone(k).rec.t, hl_rec.t)) => hl_rec.mat <= k

\* C21: two different spheres that report the same t, searched to the end:
\* the record is the one of the first
C21_Witness ==
    /\ hl_pc = "done"
    /\ Len(hl_objects) = 2
    /\ hl_objects[1].center # hl_objects[2].center
    /\ Alone(1).ret
    /\ Alone(2).ret
    /\ Alone(1).rec.t = Alone(2).rec.t
    /\ hl_rec.mat = 1
    /\ ~hl_ret

(***************************************************************************)
(* Claims about Camera::render and Camera::ray_color (under SpecRender).   *)
(***************************************************************************)
\* what this render and the finished renders wrote
Outputs == {rd_out} \cup {rd_history[k].out : k \in 1 .. Len(rd_history)}

\* ray_color has been called
Called == rd_call.depths # <<>>

\* C3: when max_depth <= 0, every call render makes to ray_color returns
\* (0,0,0) without a query of the scene (and without a call of scatter), and
\* every pixel render emits is black: its three bytes are 0 0 0, and its
\* colour is (0,0,0) when samples_per_pixel >= 1.
C3_BlackWithoutDepth ==
    cam_config.max_depth <= 0 =>
        /\ Called => /\ rd_call.col = Black
                     /\ rd_call.queries = 0
                     /\ rd_call.scatters = 0
        /\ \A out \in Outputs : \A k \in 1 .. Len(out) :
              /\ out[k].bytes = <<0, 0, 0>>
              /\ cam_config.samples_per_pixel >= 1 => out[k].color = Black

\* C3: a render with max_depth <= 0 of a scene that every ray hits has called
\* ray_color and has emitted two pixels
C3_Witness ==
    /\ cam_config.max_depth <= 0
    /\ rd_world.hits = "always"
    /\ Called
    /\ Len(rd_out) >= 2

\* C4: for max_depth >= 0, a top-level call ray_color(r, max_depth, world)
\* makes at most max_depth queries of the scene and at most max_depth calls
\* of scatter, nests at most max_depth + 1 calls, starts at depth max_depth,
\* and each recursive call has a depth argument one less than its caller's.
C4_DepthBudget ==
    (Called /\ cam_config.max_depth >= 0) =>
        /\ rd_call.queries <= cam_config.max_depth
        /\ rd_call.scatters <= cam_config.max_depth
        /\ Len(rd_call.depths) <= cam_config.max_depth + 1
        /\ rd_call.depths[1] = cam_config.max_depth
        /\ \A k \in 1 .. Len(rd_call.depths) - 1 :
              rd_call.depths[k + 1] = rd_call.depths[k] - 1

\* C4: a call in a scene where every hit scatters uses the whole budget
C4_Witness ==
    /\ Called
    /\ rd_world = [hits |-> "always", mat |-> "glass"]
    /\ cam_config.max_depth = MaxDepth
    /\ rd_call.queries = MaxDepth
    /\ rd_call.scatters = MaxDepth
    /\ Len(rd_call.depths) = MaxDepth + 1

\* the k-th colour written is the one of pixel ((k-1) mod width, (k-1) div width)
RowMajor(out) ==
    \A k \in 1 .. Len(out) :
        /\ cam_config.image_width > 0
        /\ out[k].i = (k - 1) % cam_config.image_width
        /\ out[k].j = (k - 1) \div cam_config.image_width

\* C5: render emits one colour per pixel in row-major order, row 0 first,
\* and image_width * image_height colours in all when it returns.
C5_RowMajorOutput ==
    /\ \A out \in Outputs : RowMajor(out)
    /\ Len(rd_out) <= cam_config.image_width * cam.image_height
    /\ \A k \in 1 .. Len(rd_history) :
          Len(rd_history[k].out) = cam_config.image_width * cam.image_height

\* C5: a finished render of an image of MaxWidth columns and two rows or more
C5_Witness ==
    /\ Len(rd_history) >= 1
    /\ cam_config.image_width = MaxWidth
    /\ cam.image_height >= 2
    /\ Len(rd_history[1].out) = MaxWidth * cam.image_height

\* C6 as claimed: over any sequence of calls of render on one Camera,
\* initialize runs once and is never entered again by a later render.
C6_InitializedOnce == rd_init_calls <= 1

\* C6 as amended: every call of render runs initialize exactly once, before
\* it generates a ray: after n calls of render initialize has run n times,
\* and while render scans the image the derived state is the one
\* initialize computes from the configuration.
C6_InitializedByEveryRender ==
    /\ rd_init_calls = rd_renders
    /\ rd_renders = 0 => cam = Uninitialized
    /\ rd_renders > 0 => cam = initialize(cam_config)

\* C6: the second call of render has run initialize again and is sampling
C6_Witness ==
    /\ rd_renders = 2
    /\ rd_init_calls = 2
    /\ rd_pc = "sample"
    /\ rd_sample >= 1

\* the sum of n samples of pixel (i, j) taken with the random source at pos,
\* added to acc: [sum, pos]
RECURSIVE SampleSum(_, _, _, _, _)
SampleSum(i, j, pos, n, acc) ==
    IF n = 0 THEN [sum |-> acc, pos |-> pos]
    ELSE LET g == get_ray(i, j, pos)
             c == ray_color(g.r, cam_config.max_depth, rd_world, g.pos)
         IN  SampleSum(i, j, c.pos, n - 1, vec3_add(acc, c.col))

\* the colour of pixel (i, j) as a function of the pixel, the camera, the
\* scene and the random source from pos on
PixelValue(i, j, pos) ==
    vec3_scale(cam.pixel_samples_scale,
               SampleSum(i, j, pos, cam_config.samples_per_pixel, Black).sum)

\* C7: two runs of render with the same configuration and scene that start
\* at the same position of the same random stream write the same colours,
\* and the colour of a pixel is a function of the pixel, the camera, the
\* scene and the random stream from the position reached when the pixel
\* began: nothing else written while another pixel was rendered enters it.
C7_Deterministic ==
    /\ \A a, b \in 1 .. Len(rd_history) :
          rd_history[a].start = rd_history[b].start =>
              rd_history[a].out = rd_history[b].out
    /\ rd_out # <<>> =>
          LET e == rd_out[Len(rd_out)]
          IN  e.color = PixelValue(e.i, e.j, e.pos)

\* C7: two finished renders that started at the same position of a stream
\* that is not constant, whose first two pixels differ in colour
C7_Witness ==
    /\ Len(rd_history) = 2
    /\ rd_history[1].start = rd_history[2].start
    /\ Len(rng_stream) > 1
    /\ Len(rd_history[2].out) >= 2
    /\ rd_history[2].out[1].color # rd_history[2].out[2].color
    /\ rd_history[2].out[2].color # Black

\* the point of the viewport at i + di columns and j + dj rows of pixel00_loc
ViewportPoint(i, j, di, dj) ==
    vec3_add(vec3_add(cam.pixel00_loc,
                      vec3_scale(RAdd(I(i), di), cam.pixel_delta_u)),
             vec3_scale(RAdd(I(j), dj), cam.pixel_delta_v))

\* the ray from the camera centre through a point of the viewport
RayThrough(point) == ray(cam.center, vec3_sub(point, cam.center))

\* an empty scene, one sample per pixel, and a random source that returns 0
NoJitterSetup ==
    /\ rd_world.hits = "never"
    /\ cam_config.samples_per_pixel = 1
    /\ rng_stream = <<I(0)>>

\* the ray of the sample just taken is the one through the viewport point at
\* offset (di, dj) from the centre of the pixel, and, for a max_depth in
\* depths, the colour of the sample and every colour written are the
\* background on such a ray
RaysAtOffset(di, dj, depths) ==
    /\ (rd_pc = "sample" /\ rd_sample = 1) =>
          /\ rd_ray = RayThrough(ViewportPoint(rd_i, rd_j, di, dj))
          /\ cam_config.max_depth \in depths => rd_call.col = background(rd_ray)
    /\ cam_config.max_depth \in depths =>
          \A k \in 1 .. Len(rd_out) :
              rd_out[k].color =
                  background(RayThrough(ViewportPoint(rd_out[k].i, rd_out[k].j, di, dj)))

\* C14 as claimed: with an empty scene, samples_per_pixel = 1, no defocus
\* and a random source that returns 0, get_ray(i, j) applies the offset
\* (0,0): the ray points at pixel00_loc + i*pixel_delta_u + j*pixel_delta_v
\* and the colour written is the background on that direction.
C14_NoJitter == NoJitterSetup => RaysAtOffset(I(0), I(0), -1 .. MaxDepth)

\* C14 as amended: with an empty scene, samples_per_pixel = 1, no defocus
\* and a random source that returns 0, get_ray(i, j) applies the offset
\* (-1/2, -1/2): the ray points at
\* pixel00_loc + (i - 1/2)*pixel_delta_u + (j - 1/2)*pixel_delta_v, a corner
\* of the pixel, and when max_depth >= 1 the colour written is the
\* background on that direction.
C14_CornerRay == NoJitterSetup => RaysAtOffset(Q(-1, 2), Q(-1, 2), 1 .. MaxDepth)

\* C14: a finished render in that setup of an image of two rows, whose
\* second row has a colour the pixel centre would not give
C14_Witness ==
    /\ NoJitterSetup
    /\ cam_config.max_depth >= 1
    /\ Len(rd_history) >= 1
    /\ Len(rd_out) = 2 * MaxWidth
    /\ rd_out[Len(rd_out)].color #
          background(RayThrough(ViewportPoint(MaxWidth - 1, 1, I(0), I(0))))

\* C15 as claimed: every averaged colour render passes to write_color has
\* its three channels in [0, 1], for every scene and every configuration
\* with samples_per_pixel >= 1.
C15_ColoursInUnitRange ==
    cam_config.samples_per_pixel >= 1 =>
        \A k \in 1 .. Len(rd_out) : \A c \in 1 .. 3 :
            RLe(I(0), rd_out[k].color[c]) /\ RLe(rd_out[k].color[c], I(1))

\* the flattened loop form of ray_color: the colour it returns from the
\* state (accumulator, ray, depth), with the random source at pos
RECURSIVE LoopForm(_, _, _, _, _)
LoopForm(accumulator, r, depth, world, pos) ==
    IF depth <= 0 THEN Black
    ELSE LET h == world_hit(world, r, interval(Q(1, 1000), infinity), NewRecord)
         IN  IF ~h.ret THEN vec3_mul(accumulator, background(r))
             ELSE LET s == material_scatter(h.rec.mat, r, h.rec, pos)
                  IN  IF ~s.ret THEN Black
                      ELSE LoopForm(vec3_mul(accumulator, s.attenuation), s.scattered,
                                    depth - 1, world, s.pos)

C23_SamplesPerPixel ==
    [][/\ (rd_pc = "scan" /\ rd_pc' = "sample") =>
              /\ rd_pixel_color' = Black
              /\ rd_sample' = 0
       /\ (rd_pc = "sample" /\ rd_pc' = "sample") =>
              /\ rd_sample < cam_config.samples_per_pixel
              /\ rd_sample' = rd_sample + 1
              /\ rd_call'.depths[1] = cam_config.max_depth
              /\ rd_call' = ray_color(rd_ray', cam_config.max_depth, rd_world, rd_ray_pos')
              /\ rd_pixel_color' = vec3_add(rd_pixel_color, rd_call'.col)
       /\ (rd_pc = "sample" /\ rd_pc' = "scan") =>
              /\ rd_sample = cam_config.samples_per_pixel
              /\ Len(rd_out') = Len(rd_out) + 1
              /\ rd_out'[Len(rd_out')].color =
                    vec3_scale(RDiv(I(1), I(cam_config.samples_per_pixel)),
                               rd_pixel_color)]_vars

\* C23: the second pixel of a render with MaxSamples samples per pixel has
\* been written, and its colour is not black
C23_Witness ==
    /\ rd_pc = "scan"
    /\ cam_config.samples_per_pixel = MaxSamples
    /\ rd_sample = MaxSamples
    /\ Len(rd_out) = 2
    /\ rd_out[1].color # Black
    /\ rd_out[2].color # Black
    /\ rd_out[2].color = vec3_scale(Q(1, MaxSamples), rd_pixel_color)
    /\ rd_out[2].color # rd_pixel_color

(***************************************************************************)
(* Claims about the materials (under SpecScatter).                         *)
(***************************************************************************)
\* the mirror image of v about the plane with unit normal n: the component
\* along n reversed, the component in the plane kept
Mirror(v, n) ==
    LET along == vec3_scale(dot(v, n), n)
    IN  vec3_sub(vec3_sub(v, along), along)

\* d is the direction of m, normalised
IsUnitOf(d, m) ==
    /\ vec3_eq(cross(d, m), IV(0, 0, 0))
    /\ RGt(dot(d, m), I(0))
    /\ IsSquare(length_squared(m)[1]) /\ IsSquare(length_squared(m)[2]) =>
          REq(length_squared(d), I(1))

C9_StoredFuzzInUnitRange ==
    mt_mat.kind = "metal" => RLe(I(0), mt_mat.fuzz) /\ RLe(mt_mat.fuzz, I(1))

\* C10: lambertian::scatter returns true for every incident ray and hit
\* record, sets attenuation to the albedo given at construction, and sets
\* the origin of the scattered ray to rec.p.
C10_LambertianScatter ==
    (mt_pc = "done" /\ mt_mat.kind = "lambertian") =>
        /\ mt_result.ret
        /\ mt_result.attenuation = mt_mat.albedo
        /\ mt_result.attenuation \in Albedos
        /\ mt_result.scattered.orig = mt_rec.p

\* C10: a lambertian has scattered when the random unit vector was the
\* opposite of the normal, after a rejected candidate
C10_Witness ==
    /\ mt_pc = "done"
    /\ mt_mat.kind = "lambertian"
    /\ mt_rejected
    /\ vec3_eq(vec3_add(mt_rec.normal, mt_sample), IV(0, 0, 0))
    /\ mt_result.ret
    /\ mt_result.scattered.dir = mt_rec.normal

\* |x| < 1e-8 and |y| < 1e-8 and |z| < 1e-8
AllBelowThreshold(v) ==
    \A c \in 1 .. 3 : RLt(RAbs(v[c]), Q(1, 10^8))

\* C19 as claimed: lambertian::scatter replaces the scatter direction
\* normal + random_unit_vector() by the normal iff all three components of
\* that direction have magnitude below 1e-8; a direction with any component
\* of magnitude >= 1e-8 is kept unchanged.
C19_FallbackOnlyWhenDegenerate ==
    (mt_pc = "done" /\ mt_mat.kind = "lambertian") =>
        LET direction == vec3_add(mt_rec.normal, mt_sample)
        IN  /\ AllBelowThreshold(direction) => mt_result.scattered.dir = mt_rec.normal
            /\ ~AllBelowThreshold(direction) => mt_result.scattered.dir = direction

\* C24 as claimed: the rejection sampler random_unit_vector eventually
\* returns for every random source, a deterministic one that always returns
\* 0 included, so every lambertian and metal scatter call terminates.
C24_ScatterTerminates == <>(mt_pc = "done")


(***************************************************************************)
(* Claims about dialectric (under SpecDielectric).                         *)
(***************************************************************************)
\* C11: dialectric::scatter returns true and sets attenuation to (1,1,1) on
\* every path, total internal reflection, Fresnel reflection and refraction,
\* for front-face and for back-face hits.
C11_DielectricAlwaysScatters ==
    mt_pc = "done" =>
        /\ mt_branch \in {"total", "fresnel", "refract"}
        /\ mt_result.ret
        /\ mt_result.attenuation = IV(1, 1, 1)

\* C11: a back-face hit inside glass at an angle beyond the critical one has
\* been reflected totally
C11_Witness ==
    /\ mt_pc = "done"
    /\ mt_branch = "total"
    /\ ~mt_rec.front_face
    /\ mt_mat.refraction_index = Q(3, 2)
    /\ mt_result.ret
    /\ mt_result.scattered.dir = <<Q(4, 5), Q(3, 5), I(0)>>

\* the value random_double() returned last
PreviousDraw ==
    rng_stream[((rng_pos + Len(rng_stream) - 1) % Len(rng_stream)) + 1]

\* ri as claimed: 1/refraction_index on the front face, refraction_index on
\* the back face
ClaimedRatio ==
    IF mt_rec.front_face THEN RDiv(I(1), mt_mat.refraction_index)
    ELSE mt_mat.refraction_index

\* cos_theta and sin_theta of the incident direction against the normal
ClaimedCos == RFmin(dot(vec3_neg(unit_vector(mt_r_in.dir)), mt_rec.normal), I(1))

ClaimedSin == RSqrt(RSub(I(1), RMul(ClaimedCos, ClaimedCos)))

\* Schlick's reflectance r0 + (1 - r0)(1 - cos_theta)^5, r0 = ((1 - ri)/(1 + ri))^2
Schlick ==
    LET root == RDiv(RSub(I(1), ClaimedRatio), RAdd(I(1), ClaimedRatio))
        r0 == RMul(root, root)
        d == RSub(I(1), ClaimedCos)
    IN  RAdd(r0, RMul(RSub(I(1), r0), RMul(d, RMul(d, RMul(d, RMul(d, d))))))

\* total internal reflection: ri * sin_theta > 1
TotalReflection == RGt(RMul(ClaimedRatio, ClaimedSin), I(1))

\* C22: dialectric::scatter uses ri = 1/refraction_index for a front-face
\* hit and ri = refraction_index for a back-face hit; it reflects whenever
\* ri * sin_theta > 1 regardless of the random draw, otherwise reflects iff
\* the random draw is below the Schlick reflectance, and refracts in all
\* remaining cases; exactly one of reflect and refract is chosen per call.
C22_ReflectOrRefract ==
    mt_pc = "done" =>
        LET unit_direction == unit_vector(mt_r_in.dir)
            reflected == reflect(unit_direction, mt_rec.normal)
            refracted == refract(unit_direction, mt_rec.normal, ClaimedRatio)
            direction == mt_result.scattered.dir
        IN  /\ TotalReflection => mt_branch = "total" /\ direction = reflected
            /\ (~TotalReflection /\ RLt(PreviousDraw, Schlick)) =>
                  mt_branch = "fresnel" /\ direction = reflected
            /\ (~TotalReflection /\ ~RLt(PreviousDraw, Schlick)) =>
                  mt_branch = "refract" /\ direction = refracted

\* C22: a front-face hit on glass whose draw 3/4 was not below the
\* reflectance: the ray was refracted with ri = 2/3, after a call with the
\* draw 0 that reflected it
C22_Witness ==
    /\ mt_pc = "done"
    /\ mt_rec.front_face
    /\ mt_mat.refraction_index = Q(3, 2)
    /\ ClaimedRatio = Q(2, 3)
    /\ ~TotalReflection
    /\ rng_stream = <<Q(3, 4), I(0)>>
    /\ PreviousDraw = Q(3, 4)
    /\ RLt(I(0), Schlick)
    /\ mt_branch = "refract"
    /\ mt_result.scattered.dir #
          reflect(unit_vector(mt_r_in.dir), mt_rec.normal)

(***************************************************************************)
(* Claims about interval (under SpecInterval).                             *)
(***************************************************************************)
\* C12 as claimed: for every interval and every x, contains(x) returns true
\* iff min <= x and x <= max.
C12_ContainsIsTwoSided ==
    iv_op = "contains" =>
        (iv_ret <=> (RLe(iv_self.min, iv_x) /\ RLe(iv_x, iv_self.max)))

\* the interval is the empty one
IsEmptyInterval == iv_self.min = infinity /\ iv_self.max = RNeg(infinity)

\* C13: the empty interval (the default-constructed one and interval::empty,
\* min = +infinity and max = -infinity) contains nothing, contains(x) and
\* surrounds(x) are false for every x; interval::universe contains every
\* finite x.
C13_EmptyAndUniverse ==
    /\ interval_default.min = infinity /\ interval_default.max = RNeg(infinity)
    /\ interval_empty = interval_default
    /\ (iv_op \in {"contains", "surrounds"}
           /\ iv_self \in {interval_default, interval_empty}) => ~iv_ret
    /\ (iv_op = "contains" /\ iv_self = interval_universe /\ IsFinite(iv_x)) => iv_ret

\* C13: contains was called on the empty interval with a finite argument
C13_Witness ==
    /\ iv_op = "contains"
    /\ iv_self = interval_empty
    /\ IsEmptyInterval
    /\ iv_x = I(0)
    /\ ~iv_ret

(***************************************************************************)
(* Claims about vec3::operator*= (under SpecMulAssign).                    *)
(***************************************************************************)
\* C25 as claimed: vec3::operator*=(double t) terminates for every vector
\* and every non-zero t: the call eventually returns.
C25_MulAssignTerminates == <>(ma_pc = "returned")

=============================================================================
